---- MODULE Spec2Model ----
(***************************************************************************)
(* A model of the dependency-graph engine of src/lib/system.ts: the pooled *)
(* Link records, the tracking-session protocol, dirty-level propagation,    *)
(* lazy resolution and the batched effect queue.                            *)
(*                                                                          *)
(* Objects are addressed by handles: a Link is its index in `links` (the    *)
(* order of allocation), a Dependency/Subscriber is its name.  Each engine  *)
(* function is an operator from a heap record g to the heap it leaves.      *)
(***************************************************************************)
EXTENDS Integers, Sequences, FiniteSets, TLC

VARIABLES
    nodes,   \* the Dependency / Subscriber objects' fields, by node
    links,   \* every Link object ever allocated, in allocation order
    sys,     \* the System namespace's variables and the Link pool head
    stack,   \* the callers' frames of the open tracking sessions (innermost last)
    log,     \* what the last operation called: callbacks, acquisitions
    last,    \* the last operation, its argument and the dirty levels before it
    batch,   \* the outermost open batch: what it started from and what happened in it
    trk,     \* the Tracker objects of src/src/tracker.ts and what they work on
    variant  \* the heap of the engine variant src/unnamed/part_000

vars == <<nodes, links, sys, stack, log, last, batch, trk, variant>>

----------------------------------------------------------------------------
(* Handles and the objects the engine is given.                             *)

\* `undefined` where a Link is expected
Nil == 0
\* `undefined` where a Dependency, Subscriber or IEffect is expected
None == "undefined"

NotDirty == 0
MaybeDirty == 1
Dirty == 2

\* Sources are Dependencies only; Computeds are Dependency & Subscriber with
\* update(); E is an effect that is also a Dependency; F is an effect scope.
Sources == {"A", "B"}
Computeds == {"X", "Y"}
Effects == {"E", "F"}
Nodes == Sources \cup Computeds \cup Effects

\* 'subs' in n, 'deps' in n, 'notify' in n, n.update !== undefined, n.isScope,
\* n.notifyLostSubs !== undefined
HasSubs(n) == n \in Sources \cup Computeds \cup {"E"}
HasDeps(n) == n \in Computeds \cup Effects
HasNotify(n) == n \in Effects
HasUpdate(n) == n \in Computeds
IsScope(n) == n = "F"
HasNotifyLostSubs(n) == n \in {"A", "X"}

\* Bounds of the exploration.
MaxLinks == 4
MaxSessions == 3
MaxNesting == 2
MaxWrites == 1
MaxBatch == 2
MaxLoop == 40
MaxReads == 2

----------------------------------------------------------------------------
(* The heap an operator works on, and the log of what an operation called.  *)

EmptyLog ==
    [gets |-> <<>>,       \* Link.get calls: the Link returned, and whether it was new
     lost |-> <<>>,       \* notifyLostSubs() calls, by Dependency
     updated |-> <<>>,    \* update() calls
     descended |-> <<>>,  \* the nodes resolveMaybeDirty / relinkDeps descended into
     entered |-> <<>>,    \* the subscribers whose subscriber list propagate walked
     wrote |-> FALSE,     \* a notify() wrote a source
     notified |-> <<>>,   \* notify() calls
     appended |-> <<>>,   \* effects appended to the queue since it was last empty
     thrown |-> FALSE,    \* an exception is on its way to the caller
     diverged |-> FALSE]  \* a walk was cut off

\* The log at the start of an operation: only the queue's history carries over.
StartLog ==
    [EmptyLog EXCEPT !.appended = IF sys.queuedEffects = None THEN <<>> ELSE log.appended]

Heap == [node |-> nodes, link |-> links, sys |-> sys, log |-> StartLog]

Levels == [n \in Nodes |-> nodes[n].versionOrDirtyLevel]

----------------------------------------------------------------------------
(* namespace Link                                                           *)

\* dep.notifyLostSubs(): the wrapper's callback; the model records the call.
notifyLostSubs(g, dep) == [g EXCEPT !.log.lost = Append(@, dep)]

\* Link.get without the free list: every call allocates
getNew(g, dep, sub) ==
    LET l == Len(g.link) + 1 IN
    [g |-> [g EXCEPT !.link = Append(@, [dep |-> dep,
                                          depVersion |-> -1,
                                          sub |-> sub,
                                          prevSubOrUpdate |-> Nil,
                                          nextSub |-> Nil,
                                          nextDep |-> Nil,
                                          prevPropagateOrNextReleased |-> Nil]),
                     !.log.gets = Append(@, [link |-> l, fresh |-> TRUE])],
     link |-> l]

get(g, dep, sub) ==
    IF g.sys.pool # Nil
    THEN LET l == g.sys.pool IN
         [g |-> [g EXCEPT !.sys.pool = g.link[l].prevPropagateOrNextReleased,
                          !.link[l].prevPropagateOrNextReleased = Nil,
                          !.link[l].dep = dep,
                          !.link[l].sub = sub,
                          !.log.gets = Append(@, [link |-> l, fresh |-> FALSE])],
          link |-> l]
    ELSE LET l == Len(g.link) + 1 IN
         [g |-> [g EXCEPT !.link = Append(@, [dep |-> dep,
                                               depVersion |-> -1,
                                               sub |-> sub,
                                               prevSubOrUpdate |-> Nil,
                                               nextSub |-> Nil,
                                               nextDep |-> Nil,
                                               prevPropagateOrNextReleased |-> Nil]),
                          !.log.gets = Append(@, [link |-> l, fresh |-> TRUE])],
          link |-> l]

\* the callback test without the look at the list
lostSubsAny(g, dep) == HasNotifyLostSubs(dep)

\* the test that decides whether the callback runs (system.ts:142)
lostSubs(g, dep) == g.node[dep].subs = Nil /\ HasNotifyLostSubs(dep)

\* unlinkSub that leaves the Link in the subscriber list
unlinkSubKeep(g, l) == g

unlinkSub(g, l) ==
    LET dep == g.link[l].dep
        nextSub == g.link[l].nextSub
        prevSub == g.link[l].prevSubOrUpdate
        g1 == IF nextSub # Nil
              THEN [g EXCEPT !.link[nextSub].prevSubOrUpdate = prevSub] ELSE g
        g2 == IF prevSub # Nil
              THEN [g1 EXCEPT !.link[prevSub].nextSub = nextSub] ELSE g1
        g3 == IF nextSub = Nil
              THEN [g2 EXCEPT !.node[dep].subsTail = prevSub] ELSE g2
        g4 == IF prevSub = Nil
              THEN [g3 EXCEPT !.node[dep].subs = nextSub] ELSE g3
        g5 == [g4 EXCEPT !.link[l].sub = None,
                         !.link[l].prevSubOrUpdate = Nil,
                         !.link[l].nextSub = Nil]
    IN  IF dep = None /\ (nextSub = Nil \/ prevSub = Nil)
        THEN [g2 EXCEPT !.log.thrown = TRUE]  \* TypeError: dep is undefined (system.ts:131, 134)
        ELSE IF dep = None
        THEN [g5 EXCEPT !.log.thrown = TRUE]  \* TypeError: dep is undefined (system.ts:142)
        ELSE IF lostSubs(g5, dep) THEN notifyLostSubs(g5, dep) ELSE g5

release(g, l) ==
    LET g1 == unlinkSub(g, l) IN
    IF g1.log.thrown THEN g1 ELSE
    [g1 EXCEPT !.link[l].dep = None,
               !.link[l].prevPropagateOrNextReleased = g1.sys.pool,
               !.sys.pool = l]

RECURSIVE releaseDepsLoop(_, _, _)
releaseDepsLoop(g, toBreak, nextDep) ==
    IF nextDep # Nil
    THEN LET g1 == [g EXCEPT !.link[toBreak].nextDep = Nil]
             nextNext == g1.link[nextDep].nextDep
             g2 == release(g1, nextDep)
         IN  IF g2.log.thrown THEN g2 ELSE releaseDepsLoop(g2, nextDep, nextNext)
    ELSE g

releaseDeps(g, toBreak) == releaseDepsLoop(g, toBreak, g.link[toBreak].nextDep)

----------------------------------------------------------------------------
(* namespace Dependency: link                                               *)

\* the session-dedup test (system.ts:161)
alreadyLinked(g, dep, subVersion) == g.node[dep].subVersion = subVersion

\* the chaining without the Link at the cursor's next slot
chainDrop(g, newLink, old) == g

\* the new Link is put in front of the Link at the cursor's next slot
\* (system.ts:174-176)
chain(g, newLink, old) ==
    IF old # Nil THEN [g EXCEPT !.link[newLink].nextDep = old] ELSE g

link(g, dep, allowScope) ==
    IF g.sys.activeSubsDepth = 0 THEN g
    ELSE IF g.sys.activeSub = None
    THEN [g EXCEPT !.log.thrown = TRUE]  \* TypeError: activeSub is undefined (system.ts:156, 159)
    ELSE
    LET sub == g.sys.activeSub
        subVersion == g.node[sub].versionOrDirtyLevel
    IN
    IF ~allowScope /\ IsScope(sub) THEN g
    ELSE IF alreadyLinked(g, dep, subVersion) THEN g
    ELSE
    LET g0 == [g EXCEPT !.node[dep].subVersion = subVersion]
        depsTail == g0.node[sub].depsTail
        old == IF depsTail # Nil THEN g0.link[depsTail].nextDep ELSE g0.node[sub].deps
    IN
    IF old = Nil \/ g0.link[old].dep # dep
    THEN LET r == get(g0, dep, sub)
             newLink == r.link
             g1 == [r.g EXCEPT !.link[newLink].depVersion = r.g.node[dep].depVersion]
             g2 == chain(g1, newLink, old)
             g3 == IF depsTail = Nil
                   THEN [g2 EXCEPT !.node[sub].deps = newLink,
                                   !.node[sub].depsTail = newLink]
                   ELSE [g2 EXCEPT !.link[depsTail].nextDep = newLink,
                                   !.node[sub].depsTail = newLink]
         IN  IF g3.node[dep].subs = Nil
             THEN [g3 EXCEPT !.node[dep].subs = newLink,
                             !.node[dep].subsTail = newLink]
             ELSE LET oldTail == g3.node[dep].subsTail IN
                  IF oldTail = Nil
                  THEN [g3 EXCEPT !.link[newLink].prevSubOrUpdate = Nil,
                                  !.log.thrown = TRUE]
                       \* TypeError: oldTail is undefined (system.ts:188)
                  ELSE
                  [g3 EXCEPT !.link[newLink].prevSubOrUpdate = oldTail,
                             !.link[oldTail].nextSub = newLink,
                             !.node[dep].subsTail = newLink]
    ELSE [g0 EXCEPT !.link[old].depVersion = g0.node[dep].depVersion,
                    !.node[sub].depsTail = old]

----------------------------------------------------------------------------
(* namespace Subscriber: the tracking session                               *)

preTrack(g, sub) == [g EXCEPT !.node[sub].depsTail = Nil]

\* postTrack without the trim
postTrackKeep(g, sub) == g

postTrack(g, sub) ==
    IF g.node[sub].depsTail # Nil
    THEN releaseDeps(g, g.node[sub].depsTail)
    ELSE IF g.node[sub].deps # Nil
    THEN LET g1 == releaseDeps(g, g.node[sub].deps)
             g2 == release(g1, g1.node[sub].deps)
         IN  IF g1.log.thrown THEN g1
             ELSE IF g2.log.thrown THEN g2
             ELSE [g2 EXCEPT !.node[sub].deps = Nil]
    ELSE g

\* startTrack handing out the stamp without advancing System.subVersion
startTrackSame(g, sub) ==
    LET g1 == [g EXCEPT !.sys.activeSub = sub,
                        !.sys.activeSubsDepth = @ + 1,
                        !.node[sub].versionOrDirtyLevel = g.sys.subVersion]
    IN  [g |-> preTrack(g1, sub), lastActiveSub |-> g.sys.activeSub]

\* returns the heap and lastActiveSub, which the caller keeps for endTrack
startTrack(g, sub) ==
    LET lastActiveSub == g.sys.activeSub
        g1 == [g EXCEPT !.sys.activeSub = sub,
                        !.sys.activeSubsDepth = @ + 1,
                        !.node[sub].versionOrDirtyLevel = g.sys.subVersion,
                        !.sys.subVersion = @ + 1]
    IN  [g |-> preTrack(g1, sub), lastActiveSub |-> lastActiveSub]

endTrack(g, sub, lastActiveSub) ==
    LET g1 == postTrack(g, sub) IN
    IF g1.log.thrown THEN g1 ELSE
    [g1 EXCEPT !.node[sub].versionOrDirtyLevel = NotDirty,
               !.sys.activeSubsDepth = @ - 1,
               !.sys.activeSub = lastActiveSub]

clearTrack(g, sub) == postTrack(preTrack(g, sub), sub)

----------------------------------------------------------------------------
(* namespace System: the batch counter and the effect queue                 *)

\* tail-append of an effect (system.ts:226-236 and 259-269)
enqueue(g, sub) ==
    LET queuedEffectsTail == g.sys.queuedEffectsTail
        g1 == [g EXCEPT !.log.appended = Append(@, sub)]
    IN  IF queuedEffectsTail # None
        THEN [g1 EXCEPT !.node[queuedEffectsTail].nextNotify = sub,
                        !.sys.queuedEffectsTail = sub]
        ELSE [g1 EXCEPT !.sys.queuedEffectsTail = sub,
                        !.sys.queuedEffects = sub]

startBatch(g) == [g EXCEPT !.sys.batchDepth = @ + 1]

----------------------------------------------------------------------------
(* namespace Dependency: propagate                                          *)

\* the level of a subscriber that propagate does not mark
raisedNever(subDirtyLevel, dirtyLevel) == subDirtyLevel

\* the level a subscriber would get were it overwritten without the comparison
raisedAlways(subDirtyLevel, dirtyLevel) == dirtyLevel

\* the level a subscriber is raised to (system.ts:210-212)
raised(subDirtyLevel, dirtyLevel) ==
    IF subDirtyLevel < dirtyLevel THEN dirtyLevel ELSE subDirtyLevel

\* the level below a derived node, had it been handed down unchanged
levelBelowSame(dirtyLevel) == dirtyLevel

\* the level assigned below a derived node (system.ts:220)
levelBelow(dirtyLevel) == MaybeDirty

\* the level after a return, without the reset at depth 0
levelAtKeep(depth, dirtyLevel) == dirtyLevel

\* the level assigned after a return to `depth` (system.ts:253-255)
levelAt(depth, dirtyLevel) == IF depth = 0 THEN Dirty ELSE dirtyLevel

RECURSIVE propagateLoop(_, _, _, _, _, _)
propagateLoop(g, dep, l, dirtyLevel, depth, fuel) ==
    IF fuel = 0 THEN [g EXCEPT !.log.diverged = TRUE]
    ELSE IF l # Nil /\ g.link[l].sub = None
    THEN [g EXCEPT !.log.thrown = TRUE]  \* TypeError: sub is undefined (system.ts:208)
    ELSE IF l # Nil
    THEN LET sub == g.link[l].sub
             subDirtyLevel == g.node[sub].versionOrDirtyLevel
             g1 == [g EXCEPT !.node[sub].versionOrDirtyLevel =
                                raised(subDirtyLevel, dirtyLevel)]
         IN  IF subDirtyLevel = NotDirty /\ HasSubs(sub) /\ g1.node[sub].deps = Nil
             THEN [g1 EXCEPT !.log.thrown = TRUE]  \* TypeError: sub.deps is undefined (system.ts:217)
             ELSE IF subDirtyLevel = NotDirty /\ HasSubs(sub)
             THEN propagateLoop(
                     [g1 EXCEPT !.link[g1.node[sub].deps].prevPropagateOrNextReleased = l,
                                !.log.entered = Append(@, sub)],
                     sub, g1.node[sub].subs, levelBelow(dirtyLevel), depth + 1, fuel - 1)
             ELSE LET g2 == IF subDirtyLevel = NotDirty /\ HasNotify(sub)
                            THEN enqueue(g1, sub) ELSE g1
                  IN  propagateLoop(g2, dep, g2.link[l].nextSub, dirtyLevel, depth,
                                    fuel - 1)
    ELSE IF dep = None
    THEN [g EXCEPT !.log.thrown = TRUE]  \* TypeError: dep is undefined (system.ts:241)
    ELSE LET depDeps == IF HasDeps(dep) THEN g.node[dep].deps ELSE Nil
             prevLink == IF depDeps # Nil
                         THEN g.link[depDeps].prevPropagateOrNextReleased ELSE Nil
         IN  IF prevLink # Nil
             THEN LET g1 == [g EXCEPT !.link[depDeps].prevPropagateOrNextReleased = Nil]
                      prevSub == g1.link[prevLink].sub
                      g2 == IF HasNotify(prevSub) THEN enqueue(g1, prevSub) ELSE g1
                  IN  IF prevSub = None
                      THEN [g1 EXCEPT !.log.thrown = TRUE]  \* TypeError: 'notify' in undefined (system.ts:259)
                      ELSE propagateLoop(g2, g1.link[prevLink].dep, g1.link[prevLink].nextSub,
                                    levelAt(depth - 1, dirtyLevel), depth - 1, fuel - 1)
             ELSE g

propagate(g, dep) ==
    LET g1 == [g EXCEPT !.node[dep].depVersion = @ + 1] IN
    propagateLoop(g1, dep, g1.node[dep].subs, Dirty, 0, MaxLoop)

----------------------------------------------------------------------------
(* The callbacks the wrappers supply.  `beh` is what the user code behind   *)
(* them does in this call: which update() bumps its depVersion, which marks *)
(* its subscribers Dirty, which throws; which notify() writes a source.     *)

NoWrites == [writer |-> None, source |-> None, batched |-> FALSE]

Quiet == [bump |-> {}, mark |-> {}, throws |-> {}]

\* update() of a derived node: recompute, perhaps bump depVersion
update(g, n, beh) ==
    LET call == [node |-> n, bumped |-> n \in beh.bump, marked |-> n \in beh.mark,
                 threw |-> n \in beh.throws]
        g1 == [g EXCEPT !.log.updated = Append(@, call)]
    IN  IF n \in beh.throws THEN [g1 EXCEPT !.log.thrown = TRUE]
        ELSE [g1 EXCEPT
                !.node = [m \in Nodes |->
                    IF m = n
                    THEN [g1.node[m] EXCEPT
                            !.versionOrDirtyLevel = NotDirty,
                            !.depVersion = IF n \in beh.bump THEN @ + 1 ELSE @]
                    ELSE IF /\ n \in beh.mark
                            /\ g1.node[m].versionOrDirtyLevel \in {NotDirty, MaybeDirty}
                            /\ \E l \in 1..Len(g1.link) :
                                  g1.link[l].dep = n /\ g1.link[l].sub = m
                    THEN [g1.node[m] EXCEPT !.versionOrDirtyLevel = Dirty]
                    ELSE g1.node[m]]]

\* sub.update!() on a subscriber the walk returns to (system.ts:340, 410):
\* a TypeError when the subscriber has no update
updateOf(g, sub, beh) ==
    IF HasUpdate(sub) THEN update(g, sub, beh) ELSE [g EXCEPT !.log.thrown = TRUE]

RECURSIVE drain(_, _)

endBatch(g, beh) == drain([g EXCEPT !.sys.batchDepth = @ - 1], beh)

\* notify() of an effect: it runs again, and its body may write a source
notify(g, e, beh) ==
    LET first == \A i \in 1..Len(g.log.notified) : g.log.notified[i] # e
        g1 == [g EXCEPT !.log.notified = Append(@, e),
                        !.node[e].versionOrDirtyLevel = NotDirty]
        g2 == [g1 EXCEPT !.log.wrote = TRUE]
    IN  IF beh.writer = e /\ first
        THEN IF beh.batched
             THEN LET g3 == propagate(startBatch(g2), beh.source) IN
                  IF g3.log.thrown THEN g3 ELSE endBatch(g3, beh)
             ELSE propagate(g2, beh.source)
        ELSE g1

\* the loop of System.endBatch (system.ts:59-70)
drain(g, beh) ==
    IF g.sys.batchDepth = 0 /\ g.sys.queuedEffects # None
    THEN LET effect == g.sys.queuedEffects
             queuedNext == g.node[effect].nextNotify
             g1 == IF queuedNext # None
                   THEN [g EXCEPT !.node[effect].nextNotify = None,
                                  !.sys.queuedEffects = queuedNext]
                   ELSE [g EXCEPT !.sys.queuedEffects = None,
                                  !.sys.queuedEffectsTail = None]
             g2 == notify(g1, effect, beh)
         IN  IF g2.log.thrown THEN g2  \* the exception leaves the loop
             ELSE drain(g2, beh)
    ELSE g

----------------------------------------------------------------------------
(* namespace Subscriber: lazy resolution                                    *)

\* the recompute test, had it taken MaybeDirty for Dirty
mustUpdateAny(dirtyLevel) == dirtyLevel # NotDirty

\* whether a node the walk returns from is recomputed (system.ts:409)
mustUpdate(dirtyLevel) == dirtyLevel = Dirty

\* the walk of resolveMaybeDirty (system.ts:363-422); returns the heap, the
\* subscriber the walk stopped at and hasDirtyInnerEffects
RECURSIVE resolveLoop(_, _, _, _, _, _)
resolveLoop(g, sub, l, hasDirtyInnerEffects, beh, fuel) ==
    LET stop(h) == [g |-> h, sub |-> sub, inner |-> hasDirtyInnerEffects]
        throw(h) == stop([h EXCEPT !.log.thrown = TRUE])
        after(h) ==
            IF sub = None THEN throw(h)  \* TypeError: sub is undefined (system.ts:397)
            ELSE
            LET dirtyLevel == h.node[sub].versionOrDirtyLevel
                h1 == IF dirtyLevel = MaybeDirty
                      THEN [h EXCEPT !.node[sub].versionOrDirtyLevel = NotDirty] ELSE h
                subSubs == IF HasSubs(sub) THEN h1.node[sub].subs ELSE Nil
                prevLink == IF subSubs # Nil THEN h1.link[subSubs].prevSubOrUpdate ELSE Nil
            IN  IF prevLink # Nil
                THEN LET h2 == IF mustUpdate(dirtyLevel) THEN updateOf(h1, sub, beh) ELSE h1
                         h3 == [h2 EXCEPT !.link[subSubs].prevSubOrUpdate = Nil]
                     IN  IF h2.log.thrown THEN stop(h2)
                         ELSE resolveLoop(h3, h3.link[prevLink].sub,
                                          h3.link[prevLink].nextDep,
                                          hasDirtyInnerEffects, beh, fuel - 1)
                ELSE stop(h1)
    IN
    IF fuel = 0 THEN stop([g EXCEPT !.log.diverged = TRUE])
    ELSE IF l = Nil THEN after(g)
    ELSE IF g.link[l].dep = None
    THEN throw(g)  \* TypeError: 'deps' in undefined (system.ts:368)
    ELSE
    LET dep == g.link[l].dep
        depDirtyLevel == g.node[dep].versionOrDirtyLevel
        next(h, inner) == resolveLoop(h, sub, h.link[l].nextDep, inner, beh, fuel - 1)
    IN  IF HasDeps(dep) /\ HasUpdate(dep)
        THEN IF depDirtyLevel = MaybeDirty /\ g.node[dep].subs = Nil
             THEN throw(g)  \* TypeError: dep.subs is undefined (system.ts:373)
             ELSE IF depDirtyLevel = MaybeDirty
             THEN resolveLoop(
                     [g EXCEPT !.link[g.node[dep].subs].prevSubOrUpdate = l,
                               !.log.descended = Append(@, dep)],
                     dep, g.node[dep].deps, hasDirtyInnerEffects, beh, fuel - 1)
             ELSE IF depDirtyLevel = Dirty
             THEN LET g1 == update(g, dep, beh) IN
                  IF g1.log.thrown THEN stop(g1)
                  ELSE IF sub = None
                  THEN throw(g1)  \* TypeError: sub is undefined (system.ts:381)
                  ELSE IF g1.node[sub].versionOrDirtyLevel = Dirty THEN after(g1)
                  ELSE next(g1, hasDirtyInnerEffects)
             ELSE next(g, hasDirtyInnerEffects)
        ELSE IF HasDeps(dep) /\ HasNotify(dep)
        THEN next(g, hasDirtyInnerEffects \/ depDirtyLevel \in {MaybeDirty, Dirty})
        ELSE next(g, hasDirtyInnerEffects)

\* the notification of dirty inner effects (system.ts:424-434)
RECURSIVE notifyInner(_, _, _)
notifyInner(g, l, fuel) ==
    IF l = Nil \/ fuel = 0 THEN g
    ELSE IF g.link[l].dep = None
    THEN [g EXCEPT !.log.thrown = TRUE]  \* TypeError: 'notify' in undefined (system.ts:429)
    ELSE LET dep == g.link[l].dep
             g1 == IF HasNotify(dep) /\ g.node[dep].versionOrDirtyLevel # NotDirty
                   THEN notify(g, dep, NoWrites) ELSE g
         IN  notifyInner(g1, g1.link[l].nextDep, fuel - 1)

resolveMaybeDirty(g, sub, beh) ==
    LET r == resolveLoop(g, sub, g.node[sub].deps, FALSE, beh, MaxLoop) IN
    IF r.g.log.thrown THEN r.g
    ELSE IF r.inner /\ r.g.node[r.sub].versionOrDirtyLevel = NotDirty
    THEN notifyInner(r.g, r.g.node[r.sub].deps, MaxLoop)
    ELSE r.g

\* the re-append of a Link to its Dependency's subscriber list
\* (system.ts:292-301)
reattach(g, sub, l) ==
    LET dep == g.link[l].dep
        g1 == IF g.node[dep].subs = Nil
              THEN [g EXCEPT !.node[dep].subs = l,
                             !.node[dep].subsTail = l]
              ELSE LET oldTail == g.node[dep].subsTail
                       h1 == [g EXCEPT !.link[l].prevSubOrUpdate = oldTail]
                       h2 == [h1 EXCEPT !.link[oldTail].nextSub = l]
                   IN  IF oldTail = Nil
                       THEN [h1 EXCEPT !.log.thrown = TRUE]
                            \* TypeError: oldTail is undefined (system.ts:298)
                       ELSE [h2 EXCEPT !.node[dep].subsTail = l]
    IN  IF g1.log.thrown THEN g1 ELSE [g1 EXCEPT !.link[l].sub = sub]

\* the walk of relinkDeps (system.ts:287-356); returns the heap
RECURSIVE relinkLoop(_, _, _, _, _)
relinkLoop(g, sub, l, beh, fuel) ==
    LET throw(h) == [h EXCEPT !.log.thrown = TRUE]
        after(h) ==
            IF sub = None THEN throw(h)  \* TypeError: sub is undefined (system.ts:327)
            ELSE
            LET dirtyLevel == h.node[sub].versionOrDirtyLevel
                h1 == IF dirtyLevel = MaybeDirty
                      THEN [h EXCEPT !.node[sub].versionOrDirtyLevel = NotDirty] ELSE h
                subSubs == IF HasSubs(sub) THEN h1.node[sub].subs ELSE Nil
                prevLink == IF subSubs # Nil THEN h1.link[subSubs].prevSubOrUpdate ELSE Nil
            IN  IF prevLink # Nil
                THEN LET h2 == IF dirtyLevel = Dirty THEN updateOf(h1, sub, beh) ELSE h1
                         prevSub == h2.link[prevLink].sub
                         outdated == /\ dirtyLevel = Dirty
                                     /\ h2.node[sub].depVersion # h2.link[prevLink].depVersion
                         h3 == IF outdated /\ prevSub # None
                               THEN [h2 EXCEPT !.node[prevSub].versionOrDirtyLevel = Dirty]
                               ELSE h2
                         h4 == [h3 EXCEPT !.link[subSubs].prevSubOrUpdate = Nil]
                     IN  IF h2.log.thrown THEN h2
                         ELSE IF outdated /\ prevSub = None
                         THEN throw(h2)  \* TypeError: prevLink.sub is undefined (system.ts:343)
                         ELSE relinkLoop(h4, prevSub, h4.link[prevLink].nextDep, beh,
                                         fuel - 1)
                ELSE h1
    IN
    IF fuel = 0 THEN [g EXCEPT !.log.diverged = TRUE]
    ELSE IF l = Nil THEN after(g)
    ELSE IF g.link[l].dep = None
    THEN throw(g)  \* TypeError: dep is undefined (system.ts:292)
    ELSE
    LET dep == g.link[l].dep
        g1 == reattach(g, sub, l)
        next(h) == relinkLoop(h, sub, h.link[l].nextDep, beh, fuel - 1)
    IN  IF g1.log.thrown THEN g1
        ELSE IF g1.node[dep].depVersion # g1.link[l].depVersion /\ sub = None
        THEN throw([g1 EXCEPT !.link[l].depVersion = g1.node[dep].depVersion])
             \* TypeError: sub is undefined (system.ts:305)
        ELSE IF g1.node[dep].depVersion # g1.link[l].depVersion
        THEN next([g1 EXCEPT !.link[l].depVersion = g1.node[dep].depVersion,
                             !.node[sub].versionOrDirtyLevel = Dirty])
        ELSE IF HasDeps(dep) /\ HasUpdate(dep)
        THEN IF g1.node[dep].versionOrDirtyLevel = MaybeDirty
             THEN relinkLoop(
                     [g1 EXCEPT !.link[g1.node[dep].subs].prevSubOrUpdate = l,
                                !.log.descended = Append(@, dep)],
                     dep, g1.node[dep].deps, beh, fuel - 1)
             ELSE IF g1.node[dep].versionOrDirtyLevel = Dirty
             THEN LET g2 == update(g1, dep, beh) IN
                  IF g2.log.thrown THEN g2
                  ELSE IF g2.node[dep].depVersion # g2.link[l].depVersion /\ sub = None
                  THEN throw(g2)  \* TypeError: sub is undefined (system.ts:319)
                  ELSE IF g2.node[dep].depVersion # g2.link[l].depVersion
                  THEN next([g2 EXCEPT !.node[sub].versionOrDirtyLevel = Dirty])
                  ELSE next(g2)
             ELSE next(g1)
        ELSE next(g1)

relinkDeps(g, sub, beh) == relinkLoop(g, sub, g.node[sub].deps, beh, MaxLoop)

\* A wrapper that has lost its subscribers takes its Links out of its
\* Dependencies' subscriber lists, keeping its dependency list:
\* Link.unlinkSub on each Link of sub.deps.
RECURSIVE unlinkDeps(_, _, _)
unlinkDeps(g, l, fuel) ==
    IF l = Nil \/ fuel = 0 THEN g
    ELSE LET g1 == unlinkSub(g, l) IN
         IF g1.log.thrown THEN g1 ELSE unlinkDeps(g1, g.link[l].nextDep, fuel - 1)

----------------------------------------------------------------------------
(* class Tracker (src/src/tracker.ts).  A heap h holds the Tracker objects  *)
(* `t`, the dependency arrays depsMap hands out for their trackTokens, the  *)
(* activeTrackers array, the exception on its way to a caller, and the      *)
(* calls of cleanupDepEffect the last operation made.                       *)

Trackers == {"T", "U"}
TrackedDeps == {"a", "b"}

\* the runs and resets of one Tracker, the length of a dependency array
MaxRuns == 3
MaxDeps == 2

\* DirtyLevels as tracker.ts imports it: the getter `dirty` and track() need
\* NotDirty below ComputedValueDirty, Dirty at or above it, and
\* ComputedValueMaybeDirty apart from the three (tracker.ts:8, 20, 21, 30, 40)
NotDirtyT == 0
ComputedValueMaybeDirty == 1
ComputedValueDirty == 2
DirtyT == 3

TrackerLevels == {NotDirtyT, ComputedValueMaybeDirty, ComputedValueDirty, DirtyT}

\* what the last operation on Trackers called and returned: the
\* cleanupDepEffect calls, the pauseTracking and resetTracking calls, the
\* computed() calls with queryings and dirtyLevel at the call, and the value
\* of the getter `dirty`
NoCallsT == [cleaned |-> <<>>, pauses |-> 0, resets |-> 0, computed |-> <<>>,
             returned |-> "none"]

\* T has a trackToken, U has none (tracker.ts:7); the fields as the class
\* initialises them (tracker.ts:8-12)
NewTrackers ==
    [t |-> [x \in Trackers |->
                [trackToken |-> (x = "T"), dirtyLevel |-> DirtyT, trackId |-> 0,
                 runnings |-> 0, queryings |-> 0, depsLength |-> 0]],
     depsMap |-> [x \in Trackers |-> <<>>],
     activeTrackers |-> <<>>,
     frames |-> <<>>,
     exc |-> FALSE,
     cleaned |-> <<>>,
     pauses |-> 0,
     resets |-> 0,
     computed |-> <<>>,
     returned |-> "none",
     op |-> "init"]

\* cleanupDepEffect(dep, tracker): imported; the model records the call
cleanupDepEffect(h, dep, tracker) == [h EXCEPT !.cleaned = Append(@, <<dep, tracker>>)]

preCleanup(h, tracker) ==
    [h EXCEPT !.t[tracker].trackId = @ + 1,
              !.t[tracker].depsLength = 0]

\* for (let i = tracker.depsLength; i < deps.length; i++), with i counted from 1
RECURSIVE cleanupFrom(_, _, _, _)
cleanupFrom(h, deps, i, tracker) ==
    IF i > Len(deps) THEN h
    ELSE cleanupFrom(cleanupDepEffect(h, deps[i], tracker), deps, i + 1, tracker)

postCleanup(h, tracker) ==
    IF h.t[tracker].trackToken
    THEN LET deps == h.depsMap[tracker] IN
         IF Len(deps) > h.t[tracker].depsLength
         THEN [cleanupFrom(h, deps, h.t[tracker].depsLength + 1, tracker)
                  EXCEPT !.depsMap[tracker] = SubSeq(deps, 1, h.t[tracker].depsLength)]
         ELSE h
    ELSE h

\* track(fn) up to the call of fn (tracker.ts:45-47)
trackEnter(h, tracker) ==
    preCleanup([h EXCEPT !.activeTrackers = Append(@, tracker),
                         !.t[tracker].runnings = @ + 1], tracker)

\* the finally block of track(fn) (tracker.ts:50-55)
trackFinally(h, tracker) ==
    LET h1 == postCleanup(h, tracker)
        h2 == [h1 EXCEPT !.t[tracker].runnings = @ - 1,
                         !.activeTrackers = SubSeq(@, 1, Len(@) - 1)]
    IN  IF h2.t[tracker].runnings = 0
        THEN [h2 EXCEPT !.t[tracker].dirtyLevel = NotDirtyT]
        ELSE h2

\* the exit of track(fn) were the cleanup written after fn() without try/finally
trackLeaveUnguarded(h, tracker) == IF h.exc THEN h ELSE trackFinally(h, tracker)

\* the exit of track(fn): the finally block runs whether fn returned or threw,
\* and has no catch and no return, so a thrown exception stays on its way
\* (tracker.ts:44-56)
trackLeave(h, tracker) == trackFinally(h, tracker)

reset(h, tracker) ==
    [postCleanup(preCleanup(h, tracker), tracker) EXCEPT !.t[tracker].dirtyLevel = DirtyT]

\* what dep.computed is for each dependency of a read of `dirty`: absent, a
\* function that leaves the Tracker alone, one that finds its value changed
\* and raises the Tracker to ComputedValueDirty, or one that throws
ComputedKinds == {"absent", "quiet", "dirties", "throws"}

ComputedBehaviours == [TrackedDeps -> ComputedKinds]

\* pauseTracking() and resetTracking(): imported; the model records the calls
pauseTracking(h) == [h EXCEPT !.pauses = @ + 1]

resetTracking(h) == [h EXCEPT !.resets = @ + 1]

\* dep.computed(): the dependency's computed re-evaluates
computed(h, dep, tracker, kind) ==
    LET h1 == [h EXCEPT !.computed = Append(@, <<dep, h.t[tracker].queryings,
                                                  h.t[tracker].dirtyLevel>>)]
    IN  IF kind = "throws" THEN [h1 EXCEPT !.exc = TRUE]
        ELSE IF kind = "dirties"
        THEN [h1 EXCEPT !.t[tracker].dirtyLevel = ComputedValueDirty]
        ELSE h1

\* for (const dep of deps) of the getter (tracker.ts:27-34), with i counted
\* from 1
RECURSIVE dirtyLoop(_, _, _, _, _)
dirtyLoop(h, tracker, deps, i, beh) ==
    IF i > Len(deps) THEN h
    ELSE IF beh[deps[i]] = "absent" THEN dirtyLoop(h, tracker, deps, i + 1, beh)
    ELSE LET h1 == computed(h, deps[i], tracker, beh[deps[i]]) IN
         IF h1.exc THEN h1
         ELSE IF h1.t[tracker].dirtyLevel >= ComputedValueDirty THEN h1
         ELSE dirtyLoop(h1, tracker, deps, i + 1, beh)

\* get dirty() (tracker.ts:19-41); depsMap holds an array for every
\* trackToken; the value returned is left in `returned`, and an exception of
\* computed() leaves the getter at once
dirty(h, tracker, beh) ==
    LET h1 == [h EXCEPT !.t[tracker].dirtyLevel = NotDirtyT]
        h2 == pauseTracking([h1 EXCEPT !.t[tracker].queryings = @ + 1])
        h3 == dirtyLoop(h2, tracker, h2.depsMap[tracker], 1, beh)
        h4 == [resetTracking(h3) EXCEPT !.t[tracker].queryings = @ - 1]
        h5 == IF h.t[tracker].dirtyLevel # ComputedValueMaybeDirty THEN h
              ELSE IF ~h1.t[tracker].trackToken THEN h1
              ELSE IF h3.exc THEN h3
              ELSE h4
    IN  IF h5.exc THEN h5
        ELSE [h5 EXCEPT !.returned = h5.t[tracker].dirtyLevel >= ComputedValueDirty]

\* The code that reports a change to a Tracker writes its public field
\* dirtyLevel.
markDirty(h, tracker, level) == [h EXCEPT !.t[tracker].dirtyLevel = level]

\* The running body reads `dep`: the imported tracking code records it at
\* deps[depsLength++] of the active Tracker, cleaning up the dependency it
\* overwrites when that is another one.
trackEffect(h, dep) ==
    LET tracker == h.activeTrackers[Len(h.activeTrackers)]
        deps == h.depsMap[tracker]
        i == h.t[tracker].depsLength + 1
        h1 == [h EXCEPT !.t[tracker].depsLength = i]
    IN  IF ~h.t[tracker].trackToken THEN h
        ELSE IF i <= Len(deps) /\ deps[i] = dep THEN h1
        ELSE IF i <= Len(deps)
        THEN [cleanupDepEffect(h1, deps[i], tracker)
                 EXCEPT !.depsMap[tracker] = [deps EXCEPT ![i] = dep]]
        ELSE [h1 EXCEPT !.depsMap[tracker] = Append(deps, dep)]

----------------------------------------------------------------------------
(* The engine variant src/unnamed/part_000: four dirty-level codes, a       *)
(* System.subVersion that starts at 0, Links without depVersion.  Its       *)
(* functions carry the suffix V; a heap g holds `node`, `link` and `sys`.   *)

NotDirtyV == 0
QueryingDirtyV == 1
MaybeDirtyV == 2
DirtyV == 3

\* the stamps System.subVersion hands out in a run of the model
MaxStamps == 5

\* the walks of the variant are cut off after this many steps
MaxLoopV == 30

\* the objects the variant is given: sources, derived nodes and an effect
NodesV == Sources \cup Computeds \cup {"E"}

\* A node as its wrapper creates it: Dirty, never run, never read.
NewNodeV ==
    [subs |-> Nil, subsTail |-> Nil, subVersion |-> -1,
     versionOrDirtyLevel |-> DirtyV, deps |-> Nil, depsTail |-> Nil,
     prevUpdate |-> Nil, nextNotify |-> None]

\* what the last operation of the variant called
NoCallsV == [notified |-> <<>>, ran |-> <<>>, diverged |-> FALSE, thrown |-> FALSE]

\* the heap after the module is loaded (part_000:44-49, 75); `stack` holds
\* the callers' frames, `stamps` every value preTrack has written
NewVariant ==
    [node |-> [n \in NodesV |-> NewNodeV],
     link |-> <<>>,
     log |-> NoCallsV,
     sys |-> [activeSub |-> None, activeSubsDepth |-> 0, batchDepth |-> 0,
              subVersion |-> 0, queuedEffects |-> None, queuedEffectsTail |-> None,
              pool |-> Nil],
     stack |-> <<>>,
     stamps |-> <<>>]

\* Link.get: the heap and the Link acquired
getV(g, dep, sub) ==
    IF g.sys.pool # Nil
    THEN LET l == g.sys.pool IN
         [g |-> [g EXCEPT !.sys.pool = g.link[l].nextPropagateOrReleased,
                          !.link[l].nextPropagateOrReleased = Nil,
                          !.link[l].dep = dep,
                          !.link[l].sub = sub],
          link |-> l]
    ELSE [g |-> [g EXCEPT !.link = Append(@, [dep |-> dep, sub |-> sub, prevSub |-> Nil,
                                              nextSub |-> Nil, nextDep |-> Nil,
                                              nextPropagateOrReleased |-> Nil])],
          link |-> Len(g.link) + 1]

releaseV(g, l) ==
    LET nextSub == g.link[l].nextSub
        prevSub == g.link[l].prevSub
        dep == g.link[l].dep
        g1 == IF nextSub # Nil THEN [g EXCEPT !.link[nextSub].prevSub = prevSub] ELSE g
        g2 == IF prevSub # Nil THEN [g1 EXCEPT !.link[prevSub].nextSub = nextSub] ELSE g1
        g3 == IF nextSub = Nil THEN [g2 EXCEPT !.node[dep].subsTail = prevSub] ELSE g2
        g4 == IF prevSub = Nil THEN [g3 EXCEPT !.node[dep].subs = nextSub] ELSE g3
    IN  IF dep = None /\ (nextSub = Nil \/ prevSub = Nil)
        THEN [g2 EXCEPT !.log.thrown = TRUE]  \* TypeError: link.dep is undefined (part_000:120, 123)
        ELSE
        [g4 EXCEPT !.link[l] = [dep |-> None, sub |-> None, prevSub |-> Nil,
                                nextSub |-> Nil, nextDep |-> Nil,
                                nextPropagateOrReleased |-> g4.sys.pool],
                   !.sys.pool = l]

\* the loop of Link.releaseDeps (part_000:99-105)
RECURSIVE releaseDepsLoopV(_, _, _, _)
releaseDepsLoopV(g, toBreak, nextDep, fuel) ==
    IF nextDep = Nil \/ fuel = 0 THEN g
    ELSE LET g1 == [g EXCEPT !.link[toBreak].nextDep = Nil]
             nextNext == g1.link[nextDep].nextDep
             g2 == releaseV(g1, nextDep)
         IN  IF g2.log.thrown THEN g2
             ELSE releaseDepsLoopV(g2, nextDep, nextNext, fuel - 1)

releaseDepsV(g, toBreak) == releaseDepsLoopV(g, toBreak, g.link[toBreak].nextDep, MaxLoop)

\* Dependency.link(dep)
linkV(g, dep) ==
    IF g.sys.activeSubsDepth = 0 THEN g
    ELSE IF g.sys.activeSub = None
    THEN [g EXCEPT !.log.thrown = TRUE]  \* TypeError: activeSub is undefined (part_000:148)
    ELSE LET sub == g.sys.activeSub IN
    IF g.node[dep].subVersion = g.node[sub].versionOrDirtyLevel THEN g
    ELSE
    LET g1 == [g EXCEPT !.node[dep].subVersion = g.node[sub].versionOrDirtyLevel]
        depsTail == g1.node[sub].depsTail
        old == IF depsTail # Nil THEN g1.link[depsTail].nextDep ELSE g1.node[sub].deps
    IN  IF old = Nil \/ g1.link[old].dep # dep
        THEN LET r == getV(g1, dep, sub)
                 newLink == r.link
                 g2 == IF old # Nil
                       THEN LET nextDep == r.g.link[old].nextDep
                                h == releaseV(r.g, old)
                            IN  IF h.log.thrown THEN h
                                ELSE [h EXCEPT !.link[newLink].nextDep = nextDep]
                       ELSE r.g
                 g3 == IF g2.node[sub].depsTail = Nil
                       THEN [g2 EXCEPT !.node[sub].deps = newLink,
                                       !.node[sub].depsTail = newLink]
                       ELSE [g2 EXCEPT !.link[g2.node[sub].depsTail].nextDep = newLink,
                                       !.node[sub].depsTail = newLink]
             IN  IF g2.log.thrown THEN g2
                 ELSE IF g3.node[dep].subs = Nil
                 THEN [g3 EXCEPT !.node[dep].subs = newLink,
                                 !.node[dep].subsTail = newLink]
                 ELSE IF g3.node[dep].subsTail = Nil
                 THEN [g3 EXCEPT !.link[newLink].prevSub = Nil,
                                 !.log.thrown = TRUE]
                      \* TypeError: dep.subsTail is undefined (part_000:175)
                 ELSE [g3 EXCEPT !.link[newLink].prevSub = g3.node[dep].subsTail,
                                 !.link[g3.node[dep].subsTail].nextSub = newLink,
                                 !.node[dep].subsTail = newLink]
        ELSE [g1 EXCEPT !.node[sub].depsTail = old]

preTrackV(g, sub) ==
    [g EXCEPT !.node[sub].depsTail = Nil,
              !.node[sub].versionOrDirtyLevel = g.sys.subVersion,
              !.sys.subVersion = @ + 1]

postTrackV(g, sub) ==
    LET g1 == IF g.node[sub].depsTail # Nil
              THEN releaseDepsV(g, g.node[sub].depsTail)
              ELSE IF g.node[sub].deps # Nil
              THEN LET g2 == releaseDepsV(g, g.node[sub].deps)
                       g3 == releaseV(g2, g2.node[sub].deps)
                   IN  IF g2.log.thrown THEN g2
                       ELSE IF g3.log.thrown THEN g3
                       ELSE [g3 EXCEPT !.node[sub].deps = Nil]
              ELSE g
    IN  IF g1.log.thrown THEN g1
        ELSE [g1 EXCEPT !.node[sub].versionOrDirtyLevel = NotDirtyV]

startBatchV(g) == [g EXCEPT !.sys.batchDepth = @ + 1]

\* notify() of an effect: the wrapper's callback; the effect runs again
notifyV(g, e) ==
    [g EXCEPT !.log.notified = Append(@, e),
              !.node[e].versionOrDirtyLevel = NotDirtyV]

\* the loop of System.endBatch (part_000:57-69)
RECURSIVE drainV(_, _)
drainV(g, fuel) ==
    IF fuel = 0 THEN [g EXCEPT !.log.diverged = TRUE]
    ELSE IF g.sys.batchDepth = 0 /\ g.sys.queuedEffects # None
    THEN LET effect == g.sys.queuedEffects
             queuedNext == g.node[effect].nextNotify
             g1 == IF queuedNext # None
                   THEN [g EXCEPT !.node[effect].nextNotify = None,
                                  !.sys.queuedEffects = queuedNext]
                   ELSE [g EXCEPT !.sys.queuedEffects = None,
                                  !.sys.queuedEffectsTail = None]
         IN  drainV(notifyV(g1, effect), fuel - 1)
    ELSE g

endBatchV(g) == drainV([g EXCEPT !.sys.batchDepth = @ - 1], MaxLoopV)

\* the tail-append of an effect (part_000:200-205)
enqueueV(g, sub) ==
    IF g.sys.queuedEffectsTail # None
    THEN [g EXCEPT !.node[g.sys.queuedEffectsTail].nextNotify = sub,
                   !.sys.queuedEffectsTail = sub]
    ELSE [g EXCEPT !.sys.queuedEffects = sub,
                   !.sys.queuedEffectsTail = sub]

\* the loops of Dependency.propagate (part_000:188-220): subLink walks the
\* subscriber list that starts at currentSubs; the lists still to walk are
\* chained through nextPropagateOrReleased, lastSubs being the last of them
RECURSIVE propagateLoopV(_, _, _, _, _, _)
propagateLoopV(g, currentSubs, subLink, lastSubs, dirtyLevel, fuel) ==
    IF fuel = 0 THEN [g EXCEPT !.log.diverged = TRUE]
    ELSE IF currentSubs = Nil THEN g
    ELSE IF subLink # Nil /\ g.link[subLink].sub = None
    THEN [g EXCEPT !.log.thrown = TRUE]  \* TypeError: sub is undefined (part_000:193)
    ELSE IF subLink # Nil
    THEN LET sub == g.link[subLink].sub
             subDirtyLevel == g.node[sub].versionOrDirtyLevel
             chained == subDirtyLevel = NotDirtyV /\ HasSubs(sub) /\ g.node[sub].subs # Nil
             g1 == IF chained
                   THEN [g EXCEPT !.link[lastSubs].nextPropagateOrReleased = g.node[sub].subs]
                   ELSE g
             g2 == IF subDirtyLevel = NotDirtyV /\ HasNotify(sub)
                   THEN enqueueV(g1, sub) ELSE g1
             g3 == IF subDirtyLevel < dirtyLevel
                   THEN [g2 EXCEPT !.node[sub].versionOrDirtyLevel = dirtyLevel]
                   ELSE g2
         IN  propagateLoopV(g3, currentSubs, g3.link[subLink].nextSub,
                            IF chained THEN g.node[sub].subs ELSE lastSubs,
                            dirtyLevel, fuel - 1)
    ELSE LET nextPropagate == g.link[currentSubs].nextPropagateOrReleased
             g1 == [g EXCEPT !.link[currentSubs].nextPropagateOrReleased = Nil]
         IN  propagateLoopV(g1, nextPropagate, nextPropagate, lastSubs, MaybeDirtyV,
                            fuel - 1)

propagateV(g, dep) ==
    propagateLoopV(g, g.node[dep].subs, g.node[dep].subs, g.node[dep].subs, DirtyV,
                   MaxLoopV)

\* run() of a subscriber: the wrapper's callback; it recomputes, and when
\* its value changed (n in marks) its subscribers that are not Dirty yet
\* become Dirty
runV(g, n, marks) ==
    LET g1 == [g EXCEPT !.log.ran = Append(@, n)] IN
    [g1 EXCEPT
        !.node = [m \in NodesV |->
            IF m = n THEN [g1.node[m] EXCEPT !.versionOrDirtyLevel = NotDirtyV]
            ELSE IF /\ n \in marks
                    /\ g1.node[m].versionOrDirtyLevel \in {NotDirtyV, MaybeDirtyV}
                    /\ \E l \in 1..Len(g1.link) : g1.link[l].dep = n /\ g1.link[l].sub = m
            THEN [g1.node[m] EXCEPT !.versionOrDirtyLevel = DirtyV]
            ELSE g1.node[m]]]

\* the walk of Subscriber.confirmDirtyLevel (part_000:231-268)
RECURSIVE confirmLoopV(_, _, _, _, _)
confirmLoopV(g, sub, l, marks, fuel) ==
    IF fuel = 0 THEN [g EXCEPT !.log.diverged = TRUE]
    ELSE IF sub = None
    THEN [g EXCEPT !.log.thrown = TRUE]  \* TypeError: sub is undefined (part_000:233)
    ELSE IF g.node[sub].versionOrDirtyLevel = MaybeDirtyV /\ l # Nil
                /\ g.link[l].dep = None
    THEN [g EXCEPT !.log.thrown = TRUE]  \* TypeError: 'deps' in undefined (part_000:237)
    ELSE IF g.node[sub].versionOrDirtyLevel = MaybeDirtyV /\ l # Nil
    THEN LET dep == g.link[l].dep IN
         IF HasDeps(dep) /\ g.node[dep].versionOrDirtyLevel >= MaybeDirtyV
         THEN confirmLoopV([g EXCEPT !.node[dep].prevUpdate = l], dep, g.node[dep].deps,
                           marks, fuel - 1)
         ELSE confirmLoopV(g, sub, g.link[l].nextDep, marks, fuel - 1)
    ELSE LET prevLink == g.node[sub].prevUpdate
             g1 == IF g.node[sub].versionOrDirtyLevel = MaybeDirtyV
                   THEN [g EXCEPT !.node[sub].versionOrDirtyLevel = NotDirtyV] ELSE g
         IN  IF prevLink # Nil
             THEN LET g2 == IF g1.node[sub].versionOrDirtyLevel = DirtyV
                            THEN runV(g1, sub, marks) ELSE g1
                      g3 == [g2 EXCEPT !.node[sub].prevUpdate = Nil]
                  IN  confirmLoopV(g3, g3.link[prevLink].sub, g3.link[prevLink].nextDep,
                                   marks, fuel - 1)
             ELSE g1

confirmDirtyLevelV(g, sub, marks) ==
    confirmLoopV(g, sub, g.node[sub].deps, marks, MaxLoopV)

\* returns the heap and lastActiveSub
startTrackV(g, sub) ==
    LET lastActiveSub == g.sys.activeSub
        g1 == [g EXCEPT !.sys.activeSub = sub, !.sys.activeSubsDepth = @ + 1]
    IN  [g |-> preTrackV(g1, sub), lastActiveSub |-> lastActiveSub]

endTrackV(g, sub, lastActiveSub) ==
    LET g1 == postTrackV(g, sub) IN
    IF g1.log.thrown THEN g1
    ELSE [g1 EXCEPT !.sys.activeSubsDepth = @ - 1,
                    !.sys.activeSub = lastActiveSub]

----------------------------------------------------------------------------
(* The state after construction, and the operations as actions.             *)

\* A Dependency / Subscriber as its wrapper constructs it.
NewNode ==
    [subs |-> Nil, subsTail |-> Nil, depVersion |-> 0, subVersion |-> -1,
     versionOrDirtyLevel |-> Dirty, deps |-> Nil, depsTail |-> Nil,
     nextNotify |-> None]

NoBatch == [clean |-> {}, reached |-> {}, ran |-> {}]

Init ==
    /\ nodes = [n \in Nodes |-> NewNode]
    /\ links = <<>>
    /\ sys = [activeSub |-> None, activeSubsDepth |-> 0, batchDepth |-> 0,
              subVersion |-> Dirty + 1, queuedEffects |-> None,
              queuedEffectsTail |-> None, pool |-> Nil]
    /\ stack = <<>>
    /\ log = EmptyLog
    /\ last = [op |-> "init", node |-> None, levels |-> [n \in Nodes |-> Dirty]]
    /\ batch = NoBatch
    /\ trk = NewTrackers
    /\ variant = NewVariant

Commit(g) ==
    /\ Len(g.link) <= MaxLinks
    /\ \A n \in Nodes : g.node[n].depVersion <= MaxWrites
    /\ nodes' = g.node
    /\ links' = g.link
    /\ sys' = g.sys
    /\ log' = g.log
    /\ UNCHANGED <<trk, variant>>

----------------------------------------------------------------------------
(* The lists as the pointers draw them.                                     *)

\* the Links met from l by following `field`, at most n of them
RECURSIVE Walk(_, _, _)
Walk(field, l, n) ==
    IF l = Nil \/ n = 0 THEN <<>> ELSE <<l>> \o Walk(field, field[l], n - 1)

Range(q) == {q[i] : i \in 1..Len(q)}

Count(q, x) == Cardinality({i \in 1..Len(q) : q[i] = x})

\* a subscriber's dependency list, a Dependency's subscriber list, the free list
DepsOf(s) == Walk([l \in 1..Len(links) |-> links[l].nextDep], nodes[s].deps, Len(links) + 1)
SubsOf(d) == Walk([l \in 1..Len(links) |-> links[l].nextSub], nodes[d].subs, Len(links) + 1)
PoolOf ==
    Walk([l \in 1..Len(links) |-> links[l].prevPropagateOrNextReleased], sys.pool,
         Len(links) + 1)

\* the effect queue from its head
RECURSIVE QueueFrom(_, _)
QueueFrom(e, n) ==
    IF e = None \/ n = 0 THEN <<>> ELSE <<e>> \o QueueFrom(nodes[e].nextNotify, n - 1)

Queue == QueueFrom(sys.queuedEffects, Cardinality(Nodes) + 1)

Subscribers == {n \in Nodes : HasDeps(n)}

Tracking == {stack[i].sub : i \in 1..Len(stack)}

\* The Links installed on a subscriber, with their Dependencies.
LinksOf(s) ==
    {<<l, links[l].dep>> : l \in {k \in 1..Len(links) : links[k].sub = s}}

\* The subscribers of d, and everything a change of d reaches through them.
\* The subscribers are those of the Links on d's subscriber list, which is
\* what propagate walks.
Direct(d) == {links[l].sub : l \in Range(SubsOf(d))} \ {None}

RECURSIVE Closure(_, _)
Closure(R, n) ==
    IF n = 0 THEN R
    ELSE Closure(R \cup UNION {Direct(m) : m \in {x \in R : HasSubs(x)}}, n - 1)

Reach(d) == Closure(Direct(d), Cardinality(Nodes))

\* What a change of d reaches through subscribers that are NotDirty: a node
\* that is dirty already has had its own subscribers told.
RECURSIVE ClosureClean(_, _)
ClosureClean(R, n) ==
    IF n = 0 THEN R
    ELSE ClosureClean(
            R \cup UNION {Direct(m) : m \in {x \in R : /\ HasSubs(x)
                                                       /\ nodes[x].versionOrDirtyLevel = NotDirty}},
            n - 1)

ReachClean(d) == ClosureClean(Direct(d), Cardinality(Nodes))

\* A wrapper opens a session for `sub`: Subscriber.startTrack(sub).
StartTrack(s, depth) ==
    /\ s \notin Tracking
    /\ Len(stack) < depth
    /\ sys.subVersion < Dirty + 1 + MaxSessions
    /\ LET r == startTrack(Heap, s) IN
       /\ Commit(r.g)
       /\ stack' = Append(stack, [sub |-> s, lastActiveSub |-> r.lastActiveSub,
                                  reads |-> {}, prior |-> LinksOf(s)])
    /\ last' = [op |-> "startTrack", node |-> s, levels |-> Levels]
    /\ UNCHANGED batch

\* The body of the active subscriber reads `d`: Dependency.link(d, allowScope).
\* A read that the scope marker suppresses is not recorded as a read of the run.
Link(d, allowScope, reads) ==
    /\ stack # <<>>
    /\ <<sys.activeSub, d>> \in reads
    /\ Commit(link(Heap, d, allowScope))
    /\ stack' = [stack EXCEPT ![Len(stack)].reads =
                    IF ~allowScope /\ IsScope(sys.activeSub) THEN @ ELSE @ \cup {d}]
    /\ last' = [op |-> "link", node |-> d, levels |-> Levels]
    /\ UNCHANGED batch

\* The innermost session ends: Subscriber.endTrack(sub, lastActiveSub).
EndTrack ==
    /\ stack # <<>>
    /\ LET f == stack[Len(stack)] IN
       /\ Commit(endTrack(Heap, f.sub, f.lastActiveSub))
       /\ last' = [op |-> "endTrack", node |-> f.sub, levels |-> Levels,
                   reads |-> f.reads, prior |-> f.prior]
    /\ stack' = SubSeq(stack, 1, Len(stack) - 1)
    /\ UNCHANGED batch

\* An idle subscriber is torn down: Subscriber.clearTrack(sub).
ClearTrack(s) ==
    /\ s \notin Tracking
    /\ nodes[s].deps # Nil
    /\ Commit(clearTrack(Heap, s))
    /\ last' = [op |-> "clearTrack", node |-> s, levels |-> Levels]
    /\ UNCHANGED <<stack, batch>>

\* The reads of a body, in order: link(g, d, allowScope) for each <<d, allowScope>>.
RECURSIVE linkAll(_, _)
linkAll(g, rs) ==
    IF rs = <<>> \/ g.log.thrown THEN g ELSE linkAll(link(g, rs[1][1], rs[1][2]), Tail(rs))

\* The bodies of up to MaxReads reads that `reads` allows `s`; an effect scope
\* links its inner effects with allowScope.
Bodies(s, reads) ==
    LET R == {<<r[2], IsScope(s)>> : r \in {x \in reads : x[1] = s}} IN
    UNION {[1..n -> R] : n \in 0..MaxReads}

\* A wrapper re-runs an idle subscriber: startTrack, the body's reads, endTrack.
Run(s, rs) ==
    /\ ~log.thrown
    /\ stack = <<>>
    /\ sys.subVersion < Dirty + 1 + MaxSessions
    /\ LET r == startTrack(Heap, s)
           g1 == linkAll(r.g, rs)
       IN  Commit(IF g1.log.thrown THEN g1 ELSE endTrack(g1, s, r.lastActiveSub))
    /\ last' = [op |-> "run", node |-> s, levels |-> Levels]
    /\ batch' = IF sys.batchDepth > 0 THEN [batch EXCEPT !.ran = @ \cup {s}] ELSE batch
    /\ UNCHANGED stack

\* A source's value changed: Dependency.propagate(d).
Propagate(d) ==
    /\ ~log.thrown
    /\ Commit(propagate(Heap, d))
    /\ last' = [op |-> "propagate", node |-> d, levels |-> Levels]
    /\ batch' = IF sys.batchDepth > 0
                THEN [batch EXCEPT !.reached = @ \cup (ReachClean(d) \cap Effects)]
                ELSE batch
    /\ UNCHANGED stack

\* A MaybeDirty subscriber is about to be used: Subscriber.resolveMaybeDirty(s).
ResolveMaybeDirty(s, beh) ==
    /\ ~log.thrown
    /\ stack = <<>>
    /\ nodes[s].versionOrDirtyLevel = MaybeDirty
    /\ Commit(resolveMaybeDirty(Heap, s, beh))
    /\ last' = [op |-> "resolveMaybeDirty", node |-> s, levels |-> Levels]
    /\ UNCHANGED <<stack, batch>>

\* the subscribers whose Links are out of their Dependencies' subscriber lists
Detached(s) ==
    /\ HasDeps(s)
    /\ nodes[s].deps # Nil
    /\ links[nodes[s].deps].sub = None

\* A wrapper runs a subscriber that is attached.
Rerun(s, rs) == ~Detached(s) /\ Run(s, rs)

\* A subscriber nobody subscribes to is detached.
Detach(s) ==
    /\ ~log.thrown
    /\ stack = <<>>
    /\ HasDeps(s) /\ nodes[s].deps # Nil /\ ~Detached(s)
    /\ HasSubs(s) => nodes[s].subs = Nil
    /\ Commit(unlinkDeps(Heap, nodes[s].deps, MaxLoop))
    /\ last' = [op |-> "detach", node |-> s, levels |-> Levels]
    /\ UNCHANGED <<stack, batch>>

\* A detached subscriber is subscribed to again: Subscriber.relinkDeps(s).
RelinkDeps(s, beh) ==
    /\ ~log.thrown
    /\ stack = <<>>
    /\ Detached(s)
    /\ Commit(relinkDeps(Heap, s, beh))
    /\ last' = [op |-> "relinkDeps", node |-> s, levels |-> Levels]
    /\ UNCHANGED <<stack, batch>>

\* What an operation on Trackers starts from: the record of the previous
\* operation's cleanupDepEffect calls is dropped.
TrackerStart(op) ==
    [trk EXCEPT !.cleaned = NoCallsT.cleaned, !.pauses = NoCallsT.pauses,
                !.resets = NoCallsT.resets, !.computed = NoCallsT.computed,
                !.returned = NoCallsT.returned, !.op = op]

Engine == <<nodes, links, sys, stack, log, last, batch, variant>>

\* tracker.track(fn) is called, by the program or by a running body, and
\* reaches fn().
TrackCall(tracker) ==
    /\ ~trk.exc
    /\ Len(trk.frames) < MaxNesting
    /\ trk.t[tracker].trackId < MaxRuns
    /\ trk' = [trackEnter(TrackerStart("call"), tracker)
                  EXCEPT !.frames = Append(@, [tracker |-> tracker,
                                               runnings |-> trk.t[tracker].runnings])]
    /\ UNCHANGED Engine

\* The running body reads a dependency.
TrackRead(dep) ==
    /\ ~trk.exc
    /\ trk.frames # <<>>
    /\ LET tracker == trk.activeTrackers[Len(trk.activeTrackers)] IN
       /\ trk.t[tracker].depsLength < MaxDeps
       /\ trk' = trackEffect(TrackerStart("read"), dep)
    /\ UNCHANGED Engine

\* The running body throws.
TrackThrow ==
    /\ ~trk.exc
    /\ trk.frames # <<>>
    /\ trk' = [TrackerStart("throw") EXCEPT !.exc = TRUE]
    /\ UNCHANGED Engine

\* The innermost track(fn) is left: fn returned or an exception passes.
TrackLeave ==
    /\ trk.frames # <<>>
    /\ LET tracker == trk.frames[Len(trk.frames)].tracker IN
       trk' = [trackLeave(TrackerStart("leave"), tracker)
                  EXCEPT !.frames = SubSeq(@, 1, Len(@) - 1)]
    /\ UNCHANGED Engine

\* The caller of track(fn) or of the getter, the program or the body of an
\* outer track, takes the exception.
TrackCatch ==
    /\ trk.exc
    /\ trk.op \in {"leave", "dirty"}
    /\ trk' = [TrackerStart("catch") EXCEPT !.exc = FALSE]
    /\ UNCHANGED Engine

\* tracker.reset()
TrackerReset(tracker) ==
    /\ ~trk.exc
    /\ trk.t[tracker].trackId < MaxRuns
    /\ trk' = reset(TrackerStart("reset"), tracker)
    /\ UNCHANGED Engine

\* tracker.dirty is read, by the program or by a running body.
TrackerDirty(tracker, beh) ==
    /\ ~trk.exc
    /\ trk.t[tracker].queryings < MaxNesting
    /\ trk' = dirty(TrackerStart("dirty"), tracker, beh)
    /\ UNCHANGED Engine

\* A dependency of the Tracker changed: its dirtyLevel is written.
TrackerMark(tracker, level) ==
    /\ ~trk.exc
    /\ trk' = markDirty(TrackerStart("mark"), tracker, level)
    /\ UNCHANGED Engine

\* what the variant's operations leave alone
Current == <<nodes, links, sys, stack, log, last, batch, trk>>

TrackingV == {variant.stack[i].sub : i \in 1..Len(variant.stack)}

\* the variant's heap at the start of an operation
HeapV == [variant EXCEPT !.log = NoCallsV]

\* A wrapper of the variant opens a session: Subscriber.startTrack(sub).
StartTrackV(s) ==
    /\ s \notin TrackingV
    /\ Len(variant.stack) < MaxNesting
    /\ variant.sys.subVersion < MaxStamps
    /\ LET r == startTrackV(HeapV, s) IN
       variant' = [r.g EXCEPT !.stack = Append(@, [sub |-> s,
                                                   lastActiveSub |-> r.lastActiveSub]),
                              !.stamps = Append(@, r.g.node[s].versionOrDirtyLevel)]
    /\ UNCHANGED Current

\* The body of the active subscriber reads d: Dependency.link(d).
LinkV(d, reads) ==
    /\ variant.stack # <<>>
    /\ <<variant.sys.activeSub, d>> \in reads
    /\ LET g == linkV(HeapV, d) IN
       /\ Len(g.link) <= MaxLinks
       /\ variant' = g
    /\ UNCHANGED Current

\* The innermost session ends: Subscriber.endTrack(sub, lastActiveSub).
EndTrackV ==
    /\ variant.stack # <<>>
    /\ LET f == variant.stack[Len(variant.stack)] IN
       variant' = [endTrackV(HeapV, f.sub, f.lastActiveSub)
                      EXCEPT !.stack = SubSeq(@, 1, Len(@) - 1)]
    /\ UNCHANGED Current

\* A source of the variant changed: Dependency.propagate(d).
PropagateV(d) ==
    /\ variant' = propagateV(HeapV, d)
    /\ UNCHANGED Current

\* A MaybeDirty subscriber of the variant is about to be used:
\* Subscriber.confirmDirtyLevel(s).
ConfirmDirtyLevelV(s, marks) ==
    /\ variant.stack = <<>>
    /\ variant.node[s].versionOrDirtyLevel = MaybeDirtyV
    /\ variant' = confirmDirtyLevelV(HeapV, s, marks)
    /\ UNCHANGED Current

StartBatchV ==
    /\ variant.sys.batchDepth < MaxBatch
    /\ variant' = startBatchV(HeapV)
    /\ UNCHANGED Current

EndBatchV ==
    /\ variant.sys.batchDepth > 0
    /\ variant' = endBatchV(HeapV)
    /\ UNCHANGED Current

StartBatch ==
    /\ sys.batchDepth < MaxBatch
    /\ Commit(startBatch(Heap))
    /\ last' = [op |-> "startBatch", node |-> None, levels |-> Levels]
    /\ batch' = IF sys.batchDepth = 0
                THEN [clean |-> {e \in Effects : nodes[e].versionOrDirtyLevel = NotDirty},
                      reached |-> {}, ran |-> {}]
                ELSE batch
    /\ UNCHANGED stack

EndBatch(beh) ==
    /\ sys.batchDepth > 0
    /\ Commit(endBatch(Heap, beh))
    /\ last' = [op |-> "endBatch", node |-> None, levels |-> Levels]
    /\ UNCHANGED <<stack, batch>>

Behaviours ==
    [bump : SUBSET Computeds, mark : SUBSET Computeds, throws : SUBSET Computeds]

\* update() calls that keep to the Dependency role: they may bump depVersion
BumpBehaviours == [bump : SUBSET Computeds, mark : {{}}, throws : {{}}]

WriteBehaviours ==
    {NoWrites} \cup [writer : Effects, source : Sources, batched : BOOLEAN]

\* What a subscriber's body may read, as <<subscriber, dependency>> pairs; the
\* derived nodes form a DAG.
TrackReads == {<<"X", "A">>, <<"X", "B">>, <<"Y", "A">>, <<"Y", "B">>, <<"Y", "X">>}

PropReads ==
    {<<"X", "A">>, <<"X", "B">>, <<"Y", "A">>, <<"Y", "X">>,
     <<"E", "X">>, <<"E", "Y">>, <<"F", "Y">>}

BatchReads == {<<"E", "A">>, <<"E", "B">>, <<"F", "B">>, <<"F", "E">>}

\* Tracking sessions alone, nested up to MaxNesting.
NextTrack ==
    \/ \E s \in Computeds : StartTrack(s, MaxNesting)
    \/ \E r \in TrackReads, allowScope \in BOOLEAN : Link(r[2], allowScope, TrackReads)
    \/ EndTrack
    \/ \E s \in Computeds : ClearTrack(s)

SpecTrack == Init /\ [][NextTrack]_vars

\* Propagation and lazy resolution over graphs built by whole runs; an
\* exception ends the run of the program.
NextProp ==
    \/ \E s \in Computeds \cup Effects : \E rs \in Bodies(s, PropReads) : Run(s, rs)
    \/ \E d \in Sources : Propagate(d)
    \/ \E s \in Computeds \cup Effects, beh \in Behaviours : ResolveMaybeDirty(s, beh)

SpecProp == Init /\ [][NextProp]_vars

RelinkReads == {<<"X", "A">>, <<"Y", "A">>, <<"Y", "X">>, <<"F", "Y">>}

\* Detaching and re-attaching: subscribers that are attached run, sources
\* change, and a subscriber without subscribers is detached and relinked.
NextRelink ==
    \/ \E s \in {"X", "Y", "F"} : \E rs \in Bodies(s, RelinkReads) : Rerun(s, rs)
    \/ \E d \in Sources : Propagate(d)
    \/ \E s \in {"X", "Y", "F"} : Detach(s)
    \/ \E s \in {"X", "Y", "F"}, beh \in BumpBehaviours : RelinkDeps(s, beh)

SpecRelink == Init /\ [][NextRelink]_vars

SessionReads ==
    {<<"X", "A">>, <<"Y", "X">>, <<"F", "A">>, <<"F", "Y">>, <<"E", "A">>}

\* Writes during open sessions: a source changes while subscribers of it are
\* being tracked.
NextSession ==
    \/ \E s \in {"X", "Y", "E", "F"} : StartTrack(s, MaxNesting)
    \/ \E r \in SessionReads : Link(r[2], IsScope(r[1]), SessionReads)
    \/ EndTrack
    \/ \E d \in Sources : Propagate(d)

SpecSession == Init /\ [][NextSession]_vars

\* Trackers: nested track(fn) calls whose bodies read, throw and reset.
NextTracker ==
    \/ \E tracker \in Trackers : TrackCall(tracker)
    \/ \E dep \in TrackedDeps : TrackRead(dep)
    \/ TrackThrow
    \/ TrackLeave
    \/ TrackCatch
    \/ \E tracker \in Trackers : TrackerReset(tracker)
    \/ \E tracker \in Trackers, beh \in ComputedBehaviours : TrackerDirty(tracker, beh)
    \/ \E tracker \in Trackers, level \in TrackerLevels \ {NotDirtyT} :
          TrackerMark(tracker, level)

SpecTracker == Init /\ [][NextTracker]_vars

VariantReads == {<<"X", "A">>, <<"Y", "X">>, <<"E", "Y">>}

\* The variant: tracking sessions nested up to MaxNesting, writes, lazy
\* confirmation and batches.
NextVariant ==
    \/ \E s \in Computeds \cup {"E"} : StartTrackV(s)
    \/ \E d \in Sources \cup Computeds : LinkV(d, VariantReads)
    \/ EndTrackV
    \/ \E d \in Sources : PropagateV(d)
    \/ \E s \in Computeds \cup {"E"}, marks \in SUBSET Computeds :
          ConfirmDirtyLevelV(s, marks)
    \/ StartBatchV
    \/ EndBatchV

SpecVariant == Init /\ [][NextVariant]_vars

\* The effect queue: effects over sources, writes and batches.
NextBatch ==
    \/ \E s \in Effects : \E rs \in Bodies(s, BatchReads) : Run(s, rs)
    \/ \E d \in Sources : Propagate(d)
    \/ StartBatch
    \/ \E beh \in WriteBehaviours : EndBatch(beh)

SpecBatch == Init /\ [][NextBatch]_vars

----------------------------------------------------------------------------
(* Propagation.                                                             *)

\* The state propagate(D) started from: no open session and every subscriber
\* that holds a Link NotDirty (a subscriber without Links is out of the graph).
IdleBefore ==
    /\ stack = <<>>
    /\ \A n \in Subscribers : LinksOf(n) # {} => last.levels[n] = NotDirty

\* C1: after propagate(D) from an idle all-NotDirty graph, the direct
\* subscribers of D are Dirty, the subscribers reached only through other
\* nodes are MaybeDirty, the rest keep their level, and every reached effect
\* is in the effect queue.
C1_PropagateLevels ==
    (last.op = "propagate" /\ IdleBefore) =>
        LET D == last.node IN
        /\ \A n \in Direct(D) : nodes[n].versionOrDirtyLevel = Dirty
        /\ \A n \in Reach(D) \ Direct(D) : nodes[n].versionOrDirtyLevel = MaybeDirty
        /\ \A n \in Nodes \ Reach(D) : nodes[n].versionOrDirtyLevel = last.levels[n]
        /\ \A n \in Reach(D) : HasNotify(n) => n \in Range(Queue)

\* A -> Y -> E was propagated while X subscribes to B only: a direct
\* subscriber, an effect reached through it and a subscriber out of reach
C1_Witness ==
    /\ last.op = "propagate" /\ IdleBefore
    /\ last.node = "A"
    /\ Direct("A") = {"Y"} /\ Direct("Y") = {"E"} /\ Direct("B") = {"X"}
    /\ nodes["Y"].versionOrDirtyLevel = Dirty
    /\ nodes["E"].versionOrDirtyLevel = MaybeDirty
    /\ nodes["X"].versionOrDirtyLevel = NotDirty
    /\ "E" \in Range(Queue)

\* The sinks of a diamond over the Dependency just propagated: subscribers of
\* two of its direct subscribers that do not subscribe to it themselves.
DiamondSinks ==
    {n \in Subscribers \ Direct(last.node) :
        \E d1, d2 \in Direct(last.node) :
            d1 # d2 /\ HasUpdate(d1) /\ HasUpdate(d2) /\ n \in Direct(d1) \cap Direct(d2)}

\* C7 as stated: after propagate(Source) the sink of a diamond is Dirty.
C7_SinkDirty ==
    (last.op = "propagate" /\ IdleBefore) =>
        \A n \in DiamondSinks : nodes[n].versionOrDirtyLevel = Dirty

\* C7 amended: after propagate(Source) the sink of a diamond, reached through
\* the two derived nodes only, is MaybeDirty (not Dirty).
C7_SinkMaybeDirty ==
    (last.op = "propagate" /\ IdleBefore) =>
        \A n \in DiamondSinks : nodes[n].versionOrDirtyLevel = MaybeDirty

\* the diamond A -> {X, Y} -> E was propagated
C7_Witness ==
    /\ last.op = "propagate" /\ IdleBefore
    /\ last.node = "A"
    /\ Direct("A") = {"X", "Y"}
    /\ "E" \in DiamondSinks
    /\ "X" \notin Direct("Y") /\ "Y" \notin Direct("X")

----------------------------------------------------------------------------
(* Lazy resolution.                                                         *)

\* no update() of the walk bumped a depVersion, marked a subscriber or threw
QuietUpdates ==
    \A i \in 1..Len(log.updated) :
        ~log.updated[i].bumped /\ ~log.updated[i].marked /\ ~log.updated[i].threw

\* C2: resolveMaybeDirty(S) on a MaybeDirty S, when no update() changes a
\* depVersion or marks a subscriber: S and the MaybeDirty derived nodes the
\* walk descended into end NotDirty, and update() ran only on nodes that were
\* Dirty on entry.
C2_GlitchSuppression ==
    (last.op = "resolveMaybeDirty" /\ QuietUpdates) =>
        /\ nodes[last.node].versionOrDirtyLevel = NotDirty
        /\ \A n \in Range(log.descended) : nodes[n].versionOrDirtyLevel = NotDirty
        /\ \A i \in 1..Len(log.updated) :
              /\ last.levels[log.updated[i].node] = Dirty
              /\ log.updated[i].node # last.node

\* a walk that descended into a MaybeDirty derived node and updated a Dirty one
C2_Witness ==
    /\ last.op = "resolveMaybeDirty" /\ QuietUpdates
    /\ last.levels[last.node] = MaybeDirty
    /\ log.descended # <<>>
    /\ log.updated # <<>>
    /\ nodes[last.node].versionOrDirtyLevel = NotDirty

\* Dependency d's subscriber list is a doubly-linked list from subs to
\* subsTail whose head has no predecessor.
WellLinked(d) ==
    LET q == SubsOf(d) IN
    /\ Len(q) <= Len(links)
    /\ nodes[d].subs = Nil <=> nodes[d].subsTail = Nil
    /\ q # <<>> =>
        /\ q[Len(q)] = nodes[d].subsTail
        /\ links[q[1]].prevSubOrUpdate = Nil
        /\ \A i \in 2..Len(q) : links[q[i]].prevSubOrUpdate = q[i - 1]

\* C9: once an exception of update() has reached the caller of
\* resolveMaybeDirty, every subscriber list is well linked and no head Link
\* holds a return address.
C9_ConsistentAfterThrow ==
    (last.op = "resolveMaybeDirty" /\ log.thrown) =>
        \A d \in Nodes : HasSubs(d) => WellLinked(d)

----------------------------------------------------------------------------
(* The batch and the effect queue.                                          *)

\* C5: an endBatch that leaves batchDepth above zero calls no notify(); when
\* the outermost endBatch returns, every effect that was NotDirty when the
\* batch opened, was reached by a propagate of the batch and was not run in
\* it has had exactly one notify() call (the callbacks writing nothing).
C5_BatchCoalescing ==
    last.op = "endBatch" =>
        /\ sys.batchDepth > 0 => log.notified = <<>>
        /\ (sys.batchDepth = 0 /\ ~log.wrote) =>
              \A e \in (batch.clean \cap batch.reached) \ batch.ran :
                  Count(log.notified, e) = 1

\* C6: when the outermost endBatch returns, the notify() calls it made are the
\* effects appended to the queue, in the order of their appending, and the
\* queue is empty.
C6_FifoDrain ==
    (last.op = "endBatch" /\ sys.batchDepth = 0) =>
        /\ log.notified = log.appended
        /\ sys.queuedEffects = None
        /\ sys.queuedEffectsTail = None

----------------------------------------------------------------------------
(* Tracking sessions.                                                       *)

\* the Links of list q whose dep is d / whose sub is n
WithDep(q, d) == {i \in 1..Len(q) : links[q[i]].dep = d}
WithSub(q, n) == {i \in 1..Len(q) : links[q[i]].sub = n}

\* C3: after endTrack(S), each Dependency read in the run is joined to S by
\* exactly one Link: one in S's dependency list, one in the Dependency's
\* subscriber list.
C3_Dedup ==
    last.op = "endTrack" =>
        \A d \in last.reads :
            /\ Cardinality(WithDep(DepsOf(last.node), d)) = 1
            /\ Cardinality(WithSub(SubsOf(d), last.node)) = 1

\* the Dependencies S was linked to when the run started and did not read in it
Dropped == {pl \in last.prior : pl[2] \notin last.reads}

\* C4: after endTrack(S), a Dependency linked by an earlier run and not read
\* in this one has no Link to S in its subscriber list and the Link it had is
\* on the free list; a Dependency read in this run has its Link to S, in its
\* own subscriber list and in S's dependency list.
C4_EdgeTrim ==
    last.op = "endTrack" =>
        /\ \A pl \in Dropped :
              /\ WithSub(SubsOf(pl[2]), last.node) = {}
              /\ pl[1] \in Range(PoolOf)
        /\ \A d \in last.reads :
              /\ WithSub(SubsOf(d), last.node) # {}
              /\ WithDep(DepsOf(last.node), d) # {}

\* a re-run that read one of its two earlier dependencies and not the other
C4_Witness ==
    /\ last.op = "endTrack"
    /\ Dropped # {}
    /\ \E pl \in last.prior : pl[2] \in last.reads
    /\ Cardinality({pl[2] : pl \in last.prior}) = 2

\* C8: in every step, a Dependency with the callback has notifyLostSubs
\* called once if its subscriber list went from non-empty to empty, and not
\* at all otherwise.
C8_LostSubsOnce ==
    [][\A d \in Nodes : HasNotifyLostSubs(d) =>
          Count(log'.lost, d) =
              IF nodes[d].subs # Nil /\ nodes'[d].subs = Nil THEN 1 ELSE 0]_vars

\* a re-run of Y dropped its Links to A and X: X lost its last subscriber and
\* was told, A keeps X as subscriber and was not
C8_Witness ==
    /\ last.op = "endTrack" /\ last.node = "Y"
    /\ {pl[2] : pl \in Dropped} = {"A", "X"}
    /\ log.lost = <<"X">>
    /\ nodes["A"].subs # Nil
    /\ nodes["X"].subs = Nil

\* C10: while the free list is not empty, a Link acquired by Dependency.link
\* is the head of the free list, the free list shrinks by it and no Link is
\* allocated.
C10_PoolReuse ==
    [][(sys.pool # Nil /\ log'.gets # <<>>) =>
          /\ Len(links') = Len(links)
          /\ \A i \in 1..Len(log'.gets) : ~log'.gets[i].fresh
          /\ log'.gets[1].link = sys.pool
          /\ PoolOf' = Tail(PoolOf)]_vars

\* two Links were released and a link() has taken the second of them from the
\* free list, which is empty again, with no Link allocated beyond the two
C10_Witness ==
    /\ last.op = "link"
    /\ log.gets # <<>> /\ ~log.gets[1].fresh
    /\ sys.pool = Nil
    /\ Len(links) = 2
    /\ \A l \in 1..Len(links) : links[l].sub # None

----------------------------------------------------------------------------
(* The subscriber lists.                                                    *)

\* the Links installed on Dependency d
Installed(d) == {l \in 1..Len(links) : links[l].dep = d /\ links[l].sub # None}

\* C11: between operations, following nextSub from D.subs visits each
\* installed Link of D exactly once and ends at D.subsTail, and following
\* prevSubOrUpdate from D.subsTail visits them in reverse and ends at D.subs,
\* whose prevSubOrUpdate is undefined.
C11_ListInvariant ==
    \A d \in Nodes : HasSubs(d) =>
        /\ WellLinked(d)
        /\ Range(SubsOf(d)) = Installed(d)
        /\ Len(SubsOf(d)) = Cardinality(Installed(d))

----------------------------------------------------------------------------
(* Lazy resolution: the version test.                                       *)

\* the update() calls of the walk did what the Dependency role allows and no
\* more: they recomputed, some bumped their depVersion, none marked a
\* subscriber and none threw
ContractUpdates ==
    \A i \in 1..Len(log.updated) : ~log.updated[i].marked /\ ~log.updated[i].threw

\* the Links of S to a dependency that update() left with another depVersion
\* than the Link records
Outdated(S) ==
    {l \in 1..Len(links) :
        /\ links[l].sub = S
        /\ \E i \in 1..Len(log.updated) : log.updated[i].node = links[l].dep
        /\ links[l].depVersion # nodes[links[l].dep].depVersion}

\* C12: after resolveMaybeDirty(S) whose walk stayed on S's own dependency
\* list, if a Dirty derived dependency's update() returned with a depVersion
\* that differs from the one on S's Link, S is Dirty.
C12_UpgradeOnBump ==
    (/\ last.op = "resolveMaybeDirty"
     /\ ContractUpdates
     /\ log.descended = <<>>
     /\ Outdated(last.node) # {}) =>
        nodes[last.node].versionOrDirtyLevel = Dirty

----------------------------------------------------------------------------
(* Re-attaching.                                                            *)

\* the subscribers relinkDeps walked: S and the nodes it descended into
Walked == {last.node} \cup Range(log.descended)

\* C13: after relinkDeps(S) has returned, every Link in the dependency list
\* of S and of every node walked is exactly once in its Dependency's
\* subscriber list, and no subscriber list holds a Link twice or has a
\* nextSub cycle.
C13_RelinkConsistent ==
    (last.op = "relinkDeps" /\ ~log.thrown) =>
        /\ \A n \in Walked : \A l \in Range(DepsOf(n)) :
              Count(SubsOf(links[l].dep), l) = 1
        /\ \A d \in Nodes : HasSubs(d) =>
              /\ Len(SubsOf(d)) <= Len(links)
              /\ \A l \in Range(SubsOf(d)) : Count(SubsOf(d), l) = 1

----------------------------------------------------------------------------
(* The stale slot.                                                          *)

\* the Link at the cursor's next slot of subscriber s (system.ts:166-169)
NextSlot(s) ==
    IF nodes[s].depsTail # Nil THEN links[nodes[s].depsTail].nextDep ELSE nodes[s].deps

\* C14 as stated: when link() acquires a Link while the cursor's next slot
\* holds a Link of another Dependency, that stale Link is in neither list
\* after the call.
C14_StaleSpliced ==
    [][\A s \in Nodes, o \in 1..Len(links) :
          (/\ last'.op = "link" /\ log'.gets # <<>>
           /\ s = sys.activeSub /\ o = NextSlot(s)) =>
              /\ o \notin Range(DepsOf(s))'
              /\ o \notin UNION {Range(SubsOf(d)) : d \in {x \in Nodes : HasSubs(x)}}']_vars

\* C14 amended: the new Link is inserted in front of the stale Link, which
\* keeps its place in the Subscriber's dependency list and in its
\* Dependency's subscriber list and is not released by the call.
C14_StaleKept ==
    [][\A s \in Nodes, o \in 1..Len(links) :
          (/\ last'.op = "link" /\ log'.gets # <<>>
           /\ s = sys.activeSub /\ o = NextSlot(s)) =>
              /\ links'[log'.gets[1].link].nextDep = o
              /\ links'[o].dep = links[o].dep /\ links'[o].sub = s
              /\ o \in Range(DepsOf(s))'
              /\ o \in Range(SubsOf(links[o].dep))'
              /\ o \notin Range(PoolOf)']_vars

\* a read has put a new Link in front of a Link of another Dependency
C14_Witness ==
    /\ last.op = "link" /\ log.gets # <<>>
    /\ LET n == log.gets[1].link IN
       /\ links[n].nextDep # Nil
       /\ links[links[n].nextDep].dep # links[n].dep
       /\ links[links[n].nextDep].sub = links[n].sub

----------------------------------------------------------------------------
(* The pool.                                                                *)

\* the Links reachable from a dependency list or a subscriber list
Live ==
    UNION ({Range(DepsOf(n)) : n \in Subscribers}
           \cup {Range(SubsOf(d)) : d \in {x \in Nodes : HasSubs(x)}})

\* C15: no Link of the free list is reachable from a dependency list or a
\* subscriber list, and no Link is twice on the free list.
C15_PooledXorLive ==
    /\ Range(PoolOf) \cap Live = {}
    /\ Len(PoolOf) <= Len(links)
    /\ \A l \in Range(PoolOf) : Count(PoolOf, l) = 1

\* two Links are on the free list while another two are installed, after a
\* trim at endTrack
C15_Witness ==
    /\ last.op = "endTrack"
    /\ Len(PoolOf) = 2
    /\ Cardinality(Live) = 2

----------------------------------------------------------------------------
(* The shape of the effect queue.                                           *)

\* C16: the effect queue is a finite chain from queuedEffects to
\* queuedEffectsTail, through nextNotify, on which no effect is met twice.
C16_QueueAcyclic ==
    /\ \A e \in Range(Queue) : Count(Queue, e) = 1
    /\ (sys.queuedEffects = None) <=> (sys.queuedEffectsTail = None)
    /\ Queue # <<>> =>
          /\ Queue[Len(Queue)] = sys.queuedEffectsTail
          /\ nodes[sys.queuedEffectsTail].nextNotify = None

----------------------------------------------------------------------------
(* Writes during a tracking session.                                        *)

\* the effects the step appends to the queue
AppendedByStep ==
    LET before == IF sys.queuedEffects = None THEN 0 ELSE Len(log.appended)
    IN  {log'.appended[i] : i \in (before + 1)..Len(log'.appended)}

\* C17: a propagate leaves the level of every subscriber with an open session
\* as it is, does not walk its subscriber list and does not queue it; the
\* endTrack of the session leaves it NotDirty and does not touch the queue.
C17_SessionShielded ==
    [][/\ last'.op = "propagate" =>
             \A s \in Tracking :
                 /\ nodes[s].versionOrDirtyLevel > Dirty
                 /\ nodes'[s].versionOrDirtyLevel = nodes[s].versionOrDirtyLevel
                 /\ s \notin Range(log'.entered)
                 /\ s \notin AppendedByStep
       /\ last'.op = "endTrack" =>
             /\ nodes'[last'.node].versionOrDirtyLevel = NotDirty
             /\ sys'.queuedEffects = sys.queuedEffects
             /\ sys'.queuedEffectsTail = sys.queuedEffectsTail
             /\ \A n \in Nodes : nodes'[n].nextNotify = nodes[n].nextNotify]_vars

\* A was written while X, which subscribes to A and has a subscriber of its
\* own, and the effect F, which subscribes to A too, were being tracked
C17_Witness ==
    /\ last.op = "propagate"
    /\ {"X", "F"} \subseteq Tracking \cap Direct(last.node)
    /\ nodes["X"].subs # Nil

----------------------------------------------------------------------------
(* Version stamps.                                                          *)

\* C18: the stamp startTrack assigns is System.subVersion, which is above
\* Dirty, grows with every startTrack and never shrinks, so stamps strictly
\* increase and no two sessions share one; a subscriber with an open session
\* holds a level above Dirty, its stamp, different from every other open one.
C18_StampsIncrease ==
    /\ [](/\ sys.subVersion > Dirty
          /\ \A s \in Tracking :
                /\ nodes[s].versionOrDirtyLevel > Dirty
                /\ nodes[s].versionOrDirtyLevel < sys.subVersion
          /\ \A s, t \in Tracking :
                s # t => nodes[s].versionOrDirtyLevel # nodes[t].versionOrDirtyLevel)
    /\ [][/\ sys'.subVersion >= sys.subVersion
          /\ last'.op = "startTrack" =>
                /\ nodes'[last'.node].versionOrDirtyLevel = sys.subVersion
                /\ sys'.subVersion = sys.subVersion + 1]_vars

\* the third session is open inside the second, after the first has ended and
\* a source was written
C18_Witness ==
    /\ sys.subVersion = Dirty + 4
    /\ Cardinality(Tracking) = 2
    /\ \E d \in Sources : nodes[d].depVersion > 0
    /\ \E s \in Nodes \ Tracking : nodes[s].versionOrDirtyLevel = NotDirty

----------------------------------------------------------------------------
(* The manual stack of propagate.                                           *)

\* C19: propagate returns (the walk is not cut off and nothing is thrown),
\* it has walked the subscriber list of each subscriber at most once, and
\* afterwards no Link of a dependency list or subscriber list holds a return
\* address in prevPropagateOrNextReleased.
C19_PropagateReturns ==
    last.op = "propagate" =>
        /\ ~log.diverged
        /\ ~log.thrown
        /\ \A n \in Range(log.entered) : Count(log.entered, n) = 1
        /\ \A l \in Live : links[l].prevPropagateOrNextReleased = Nil

\* a write of A walked the subscriber lists of X, of Y and of E, which
\* subscribes to both X and Y: the walk met E twice
C19_Witness ==
    /\ last.op = "propagate" /\ last.node = "A"
    /\ Range(log.entered) = {"X", "Y", "E"}
    /\ {"X", "Y"} \subseteq Direct("A") \cup Direct("X")
    /\ "E" \in Direct("X") \cap Direct("Y")

----------------------------------------------------------------------------
(* Tracker.track                                                            *)

\* the frame of the track(fn) call the step leaves, and its Tracker
LeftFrame == trk.frames[Len(trk.frames)]

\* C20: whenever a track(fn) call is left, fn having returned or thrown, the
\* Tracker is popped from activeTrackers, runnings is what it was before the
\* call, the dependencies from index depsLength on have been cleaned up and
\* cut off, dirtyLevel becomes NotDirty if runnings is back at 0 and is kept
\* otherwise, and an exception of fn is still on its way to the caller.
C20_TrackCleansUp ==
    [][trk'.op = "leave" =>
          LET tracker == LeftFrame.tracker
              deps == trk.depsMap[tracker]
              n == trk.t[tracker].depsLength
          IN  /\ trk.activeTrackers[Len(trk.activeTrackers)] = tracker
              /\ trk'.activeTrackers =
                    SubSeq(trk.activeTrackers, 1, Len(trk.activeTrackers) - 1)
              /\ Len(trk'.activeTrackers) = Len(trk'.frames)
              /\ trk'.t[tracker].runnings = LeftFrame.runnings
              /\ trk'.depsMap[tracker] = SubSeq(deps, 1, n)
              /\ trk'.cleaned = [i \in 1..(Len(deps) - n) |-> <<deps[n + i], tracker>>]
              /\ trk'.t[tracker].runnings = 0 => trk'.t[tracker].dirtyLevel = NotDirtyT
              /\ trk'.t[tracker].runnings # 0 =>
                    trk'.t[tracker].dirtyLevel = trk.t[tracker].dirtyLevel
              /\ trk'.exc = trk.exc]_vars

\* an inner track(fn) of T, called from a body of T, was left by an exception:
\* a dependency of the earlier run was cleaned up, T is still running and Dirty
C20_Witness ==
    /\ trk.op = "leave"
    /\ trk.exc
    /\ trk.cleaned # <<>>
    /\ trk.t["T"].runnings = 1
    /\ trk.t["T"].dirtyLevel = DirtyT
    /\ trk.activeTrackers = <<"T">>

----------------------------------------------------------------------------
(* Version stamps of the variant.                                           *)

\* C21: in the variant, every value preTrack has written to a subscriber's
\* versionOrDirtyLevel is above the dirty-level codes 0..3, and no two of them
\* are equal.
C21_StampsAboveCodes ==
    /\ \A i \in 1..Len(variant.stamps) : variant.stamps[i] > DirtyV
    /\ \A i, j \in 1..Len(variant.stamps) :
          i # j => variant.stamps[i] # variant.stamps[j]

====
